---- MODULE Spec2Model ----
(***************************************************************************)
(* Model of src/app.js: the async function sendQuery, the page elements it *)
(* reads and writes (#userInput.value, #response.innerHTML), alert(), and  *)
(* the fetch()/Response.json() promises it awaits.                         *)
(*                                                                         *)
(* Text is modelled as TLA+ strings; the input field is a sequence of      *)
(* one-character strings so that String.prototype.trim can be computed.    *)
(* The error message of app.js:28 starts with U+274C, which is written     *)
(* here as the ASCII escape "\\u274C".                                     *)
(***************************************************************************)
EXTENDS Naturals, Sequences, FiniteSets

VARIABLES
    input,      \* document.getElementById("userInput").value
    output,     \* document.getElementById("response").innerHTML
    calls,      \* one activation record per invocation of sendQuery, in order
    lastSettled \* history: the call that settled last and what it received

vars == <<input, output, calls, lastSettled>>

----------------------------------------------------------------------------
(* Bounds *)

MaxLen == 2        \* longest text typed into the input field
MaxCalls == 2      \* number of invocations of sendQuery in a behaviour

----------------------------------------------------------------------------
(* Strings *)

Chars == {" ", "a"}
Whitespace == {" "}

Inputs == UNION {[1..n -> Chars] : n \in 0..MaxLen}

RECURSIVE Str(_)
Str(s) == IF s = <<>> THEN "" ELSE Head(s) \o Str(Tail(s))

RECURSIVE TrimStart(_)
TrimStart(s) ==
    IF s # <<>> /\ Head(s) \in Whitespace THEN TrimStart(Tail(s)) ELSE s

RECURSIVE TrimEnd(_)
TrimEnd(s) ==
    IF s # <<>> /\ s[Len(s)] \in Whitespace
    THEN TrimEnd(SubSeq(s, 1, Len(s) - 1))
    ELSE s

\* variant: the emptiness test applied to the raw value
NoTrim(s) == s

\* input.trim()
Trim(s) == TrimEnd(TrimStart(s))

\* !input.trim() : the empty string is the only falsy string
IsFalsy(s) == s = <<>>

----------------------------------------------------------------------------
(* Constants of the program *)

API_URL == "http://127.0.0.1:8000/query"

ALERT_MESSAGE == "Please enter something."

PROCESSING == "Processing..."

CONNECTION_ERROR ==
    "\\u274C Connection Error. Ensure backend is running on 127.0.0.1:8000"

----------------------------------------------------------------------------
(* The request *)

\* JSON.stringify({ query: input }) for the characters of Chars (none of
\* which JSON escapes)
JSONStringifyQuery(s) == "{\"query\":\"" \o Str(s) \o "\"}"

\* variant: the options object without its method (fetch defaults to GET)
FetchInitGet(s) ==
    [ url     |-> API_URL,
      method  |-> "GET",
      headers |-> {<<"Content-Type", "application/json">>},
      body    |-> JSONStringifyQuery(s) ]

\* variant: the trimmed value sent as the query
FetchInitTrimmed(s) ==
    [ url     |-> API_URL,
      method  |-> "POST",
      headers |-> {<<"Content-Type", "application/json">>},
      body    |-> JSONStringifyQuery(Trim(s)) ]

FetchInit(s) ==
    [ url     |-> API_URL,
      method  |-> "POST",
      headers |-> {<<"Content-Type", "application/json">>},
      body    |-> JSONStringifyQuery(s) ]

----------------------------------------------------------------------------
(* The response *)

Statuses == {200, 500}

\* What Response.json() makes of a body: the parsed value, or the rejection
\* with a SyntaxError.  An object is a function from its keys to its values.
Undefined == [type |-> "undefined"]
JSNull == [type |-> "null"]
JSString(s) == [type |-> "string", value |-> s]
JSObject(f) == [type |-> "object", fields |-> f]
SyntaxError == [type |-> "SyntaxError"]

Bodies ==
    { "{\"agent_name\":\"Bot\",\"response\":\"Hello\"}",
      "{\"agent_name\":\"Bot\"}",
      "{\"response\":\"<b>Hi</b>\"}",
      "{\"detail\":\"Not Found\"}",
      "null",
      "<html>Bad Gateway</html>" }

JSONParse(body) ==
    CASE body = "{\"agent_name\":\"Bot\",\"response\":\"Hello\"}" ->
            JSObject([k \in {"agent_name", "response"} |->
                        IF k = "agent_name" THEN "Bot" ELSE "Hello"])
      [] body = "{\"agent_name\":\"Bot\"}" ->
            JSObject([k \in {"agent_name"} |-> "Bot"])
      [] body = "{\"response\":\"<b>Hi</b>\"}" ->
            JSObject([k \in {"response"} |-> "<b>Hi</b>"])
      [] body = "{\"detail\":\"Not Found\"}" ->
            JSObject([k \in {"detail"} |-> "Not Found"])
      [] body = "null" -> JSNull
      [] OTHER -> SyntaxError

\* data.key : a property read of an object yields undefined when the key is
\* absent; a property read of null throws a TypeError
Throws(data) == data.type = "null"

\* variant: data.key || ""
GetOrEmpty(data, key) ==
    IF data.type = "object" /\ key \in DOMAIN data.fields
    THEN JSString(data.fields[key])
    ELSE JSString("")

Get(data, key) ==
    IF data.type = "object" /\ key \in DOMAIN data.fields
    THEN JSString(data.fields[key])
    ELSE Undefined

\* ${v} in a template literal
Interpolate(v) ==
    CASE v.type = "string" -> v.value
      [] v.type = "undefined" -> "undefined"
      [] v.type = "null" -> "null"

\* the template literal of app.js:22-25
Template(data) ==
    "\n            <h3>Agent: " \o Interpolate(Get(data, "agent_name"))
        \o "</h3>\n            <p>" \o Interpolate(Get(data, "response"))
        \o "</p>\n        "

----------------------------------------------------------------------------
(* The activations of sendQuery *)

\* pc: "returned" (left at the return of line 8), "fetch" (suspended at the
\* await of line 14), "json" (suspended at the await of line 20), "done"
Activation(in, pc, alerts, fetches, pending, status) ==
    [ input   |-> in,        \* const input (line 4), until its request is answered
      pc      |-> pc,
      alerts  |-> alerts,    \* alert() dialogs this invocation has shown
      fetches |-> fetches,   \* fetch() calls this invocation has made
      pending |-> pending,   \* its requests on the wire
      status  |-> status ]   \* res.status once fetch has resolved, else 0

\* the activation once its promise has settled (locals dropped)
Finished(c) == Activation(<<>>, "done", c.alerts, c.fetches, <<>>, 0)

InFlight == {i \in DOMAIN calls : calls[i].pc \in {"fetch", "json"}}

NoSettlement == [id |-> 0, status |-> 0, body |-> ""]

Init ==
    /\ input = <<>>
    /\ output = ""
    /\ calls = <<>>
    /\ lastSettled = NoSettlement

\* the user edits the text field
SetInput(v) ==
    /\ v # input
    /\ input' = v
    /\ UNCHANGED <<output, calls, lastSettled>>

\* variant: the output area cleared before the alert
SendQueryEmptyClears ==
    /\ Len(calls) < MaxCalls
    /\ IsFalsy(Trim(input))
    /\ output' = ""
    /\ calls' = Append(calls,
            Activation(input, "returned", <<ALERT_MESSAGE>>, 0, <<>>, 0))
    /\ UNCHANGED <<input, lastSettled>>

\* lines 6-9: validation fails, alert and return
SendQueryEmpty ==
    /\ Len(calls) < MaxCalls
    /\ IsFalsy(Trim(input))
    /\ calls' = Append(calls,
            Activation(input, "returned", <<ALERT_MESSAGE>>, 0, <<>>, 0))
    /\ UNCHANGED <<input, output, lastSettled>>

\* variant: line 11 missing
SendQueryFetchNoPlaceholder ==
    /\ Len(calls) < MaxCalls
    /\ ~IsFalsy(Trim(input))
    /\ calls' = Append(calls,
            Activation(input, "fetch", <<>>, 1, <<FetchInit(input)>>, 0))
    /\ UNCHANGED <<input, output, lastSettled>>

\* lines 4-18 up to the first await: placeholder written, request issued
SendQueryFetch ==
    /\ Len(calls) < MaxCalls
    /\ ~IsFalsy(Trim(input))
    /\ output' = PROCESSING
    /\ calls' = Append(calls,
            Activation(input, "fetch", <<>>, 1, <<FetchInit(input)>>, 0))
    /\ UNCHANGED <<input, lastSettled>>

SendQuery == SendQueryEmpty \/ SendQueryFetch

\* the promise of fetch() fulfils when the response head arrives (any status)
FetchResolve(i, status) ==
    /\ calls[i].pc = "fetch"
    /\ calls' = [calls EXCEPT ![i] =
                    Activation(<<>>, "json", calls[i].alerts, calls[i].fetches,
                               <<>>, status)]
    /\ UNCHANGED <<input, output, lastSettled>>

\* the promise of fetch() rejects (network failure): catch, lines 26-29
FetchReject(i) ==
    /\ calls[i].pc = "fetch"
    /\ output' = CONNECTION_ERROR
    /\ calls' = [calls EXCEPT ![i] = Finished(calls[i])]
    /\ lastSettled' = [id |-> i, status |-> 0, body |-> ""]
    /\ UNCHANGED input

\* variant: the await of line 20 outside the try block, so that a parse
\* failure leaves the placeholder
RenderedUncaught(status, body) ==
    LET data == JSONParse(body) IN
    IF data = SyntaxError THEN PROCESSING
    ELSE IF Throws(data) THEN CONNECTION_ERROR
    ELSE Template(data)

\* lines 20-29 once res.json() has settled on a body: what is written
Rendered(status, body) ==
    LET data == JSONParse(body) IN
    IF data = SyntaxError \/ Throws(data)
    THEN CONNECTION_ERROR
    ELSE Template(data)

\* variant: a sequence number per call, only the latest call's result applied
JsonSettleLatestOnly(i, body) ==
    /\ calls[i].pc = "json"
    /\ output' = IF i = Len(calls) THEN Rendered(calls[i].status, body)
                 ELSE output
    /\ calls' = [calls EXCEPT ![i] = Finished(calls[i])]
    /\ lastSettled' = [id |-> i, status |-> calls[i].status, body |-> body]
    /\ UNCHANGED input

\* variant: an error message already shown is kept
JsonSettleSticky(i, body) ==
    /\ calls[i].pc = "json"
    /\ output' = IF lastSettled.id # 0 /\ lastSettled.status = 0
                 THEN CONNECTION_ERROR
                 ELSE Rendered(calls[i].status, body)
    /\ calls' = [calls EXCEPT ![i] = Finished(calls[i])]
    /\ lastSettled' = [id |-> i, status |-> calls[i].status, body |-> body]
    /\ UNCHANGED input

\* the promise of res.json() settles when the body has arrived
JsonSettle(i, body) ==
    /\ calls[i].pc = "json"
    /\ output' = Rendered(calls[i].status, body)
    /\ calls' = [calls EXCEPT ![i] = Finished(calls[i])]
    /\ lastSettled' = [id |-> i, status |-> calls[i].status, body |-> body]
    /\ UNCHANGED input

Next ==
    \/ \E v \in Inputs : SetInput(v)
    \/ SendQuery
    \/ \E i \in DOMAIN calls, status \in Statuses : FetchResolve(i, status)
    \/ \E i \in DOMAIN calls : FetchReject(i)
    \/ \E i \in DOMAIN calls, body \in Bodies : JsonSettle(i, body)

Spec == Init /\ [][Next]_vars

----------------------------------------------------------------------------
(* Vocabulary of the properties *)

\* this step is an invocation of sendQuery; New is its activation afterwards
Invoked == Len(calls') = Len(calls) + 1
New == calls'[Len(calls')]

\* this step settles call i
Settles(i) == calls[i].pc \in {"fetch", "json"} /\ calls'[i].pc = "done"

\* the output area still shows what the last settlement wrote
ResultShown ==
    lastSettled.id # 0 /\ (InFlight = {} \/ output # PROCESSING)

ERROR_TEXT ==
    "\\u274C Connection Error. Ensure backend is running on 127.0.0.1:8000"

Markup(agent, response) ==
    "\n            <h3>Agent: " \o agent \o "</h3>\n            <p>"
        \o response \o "</p>\n        "

\* what the specification says a settlement leaves in the output area
ExpectedOutput(s) ==
    CASE s.status = 0 -> ERROR_TEXT
      [] s.status # 0 /\ s.body = "{\"agent_name\":\"Bot\",\"response\":\"Hello\"}" ->
            Markup("Bot", "Hello")
      [] s.status # 0 /\ s.body = "{\"agent_name\":\"Bot\"}" ->
            Markup("Bot", "undefined")
      [] s.status # 0 /\ s.body = "{\"response\":\"<b>Hi</b>\"}" ->
            Markup("undefined", "<b>Hi</b>")
      [] s.status # 0 /\ s.body = "{\"detail\":\"Not Found\"}" ->
            Markup("undefined", "undefined")
      [] OTHER -> ERROR_TEXT

----------------------------------------------------------------------------
(* C1: an invocation whose input is empty after trimming shows an alert    *)
(* and issues no request, whatever else is in flight, and never issues one *)
(* later.                                                                  *)
C1_EmptyInputAlertsWithoutRequest ==
    [][ /\ (Invoked /\ \A k \in DOMAIN input : input[k] = " ") =>
              /\ New.alerts = <<"Please enter something.">>
              /\ New.fetches = 0
              /\ New.pending = <<>>
              /\ \A i \in DOMAIN calls : calls'[i] = calls[i]
        /\ \A i \in DOMAIN calls :
              calls[i].pc = "returned" => calls'[i] = calls[i]
      ]_vars

\* an all-whitespace, non-empty input was rejected while a call is in flight
C1_Witness ==
    \E i \in DOMAIN calls :
        /\ calls[i].pc = "returned"
        /\ calls[i].input # <<>>
        /\ calls[i].alerts # <<>>
        /\ calls[i].fetches = 0
        /\ InFlight # {}

(* C2: an invocation whose trimmed input is non-empty issues exactly one   *)
(* POST request to the fixed URL with Content-Type: application/json, and  *)
(* no step ever issues another request for a call (no retry).              *)
C2_ExactlyOnePost ==
    [][ /\ (Invoked /\ \E k \in DOMAIN input : input[k] # " ") =>
              /\ New.fetches = 1
              /\ Len(New.pending) = 1
              /\ New.pending[1].url = "http://127.0.0.1:8000/query"
              /\ New.pending[1].method = "POST"
              /\ New.pending[1].headers =
                      {<<"Content-Type", "application/json">>}
              /\ New.alerts = <<>>
        /\ \A i \in DOMAIN calls :
              /\ calls'[i].fetches = calls[i].fetches
              /\ calls'[i].pending \in {calls[i].pending, <<>>}
      ]_vars

\* a call whose fetch was rejected is done, having issued its one request
C2_Witness ==
    /\ lastSettled.id # 0
    /\ lastSettled.status = 0
    /\ calls[lastSettled.id].pc = "done"
    /\ calls[lastSettled.id].fetches = 1
    /\ output = ERROR_TEXT

(* C8: the query of the request body is the value the input field held at  *)
(* the invocation, untrimmed, and a request on the wire is never altered   *)
(* by later edits of the field or later invocations.                       *)
C8_QueryIsRawInputAtInvocation ==
    [][ /\ (Invoked /\ \E k \in DOMAIN input : input[k] # " ") =>
              /\ Len(New.pending) = 1
              /\ New.pending[1].body = "{\"query\":\"" \o Str(input) \o "\"}"
        /\ \A i \in DOMAIN calls :
              calls'[i].pending \in {calls[i].pending, <<>>}
      ]_vars

\* a request carrying leading whitespace is on the wire after the field
\* was edited
C8_Witness ==
    \E i \in DOMAIN calls :
        /\ calls[i].pc = "fetch"
        /\ calls[i].pending[1].body = "{\"query\":\" a\"}"
        /\ input = <<"a", "a">>

(* C10: an invocation that fails validation leaves the output area and     *)
(* every other call as they were.                                          *)
C10_RejectedInvocationChangesNothing ==
    [][ (Invoked /\ \A k \in DOMAIN input : input[k] = " ") =>
            /\ output' = output
            /\ \A i \in DOMAIN calls : calls'[i] = calls[i]
            /\ {i \in DOMAIN calls' : calls'[i].pc \in {"fetch", "json"}}
                    = InFlight
            /\ input' = input
      ]_vars

\* a rejected invocation made while the placeholder of a pending call shows
C10_Witness ==
    /\ Len(calls) >= 2
    /\ calls[1].pc \in {"fetch", "json"}
    /\ calls[2].pc = "returned"
    /\ output = "Processing..."

(* C3 as stated: while a call that passed validation has not settled, the  *)
(* output area equals "Processing...", under any interleaving.             *)
C3_PlaceholderWhileAnyCallPending ==
    InFlight # {} => output = "Processing..."

(* C3 as amended: passing validation writes "Processing...", and the       *)
(* output area keeps it until the first settlement of any call in flight,  *)
(* the invocation's own or an overlapping one.                             *)
C3_PlaceholderUntilFirstSettlement ==
    [][ /\ (Invoked /\ \E k \in DOMAIN input : input[k] # " ") =>
              output' = "Processing..."
        /\ (output = "Processing..." /\ output' # "Processing...") =>
              \E i \in DOMAIN calls : Settles(i)
        /\ (InFlight # {} /\ lastSettled.id = 0) => output = "Processing..."
      ]_vars

\* the placeholder has replaced an earlier result and the response head of
\* the pending call has arrived
C3_Witness ==
    /\ lastSettled.id # 0
    /\ \E i \in DOMAIN calls : calls[i].pc = "json" /\ i > lastSettled.id
    /\ output = "Processing..."

(* C4: a call that settles on a non-2xx response leaves the fixed error    *)
(* message in the output area, whatever the body.                          *)
C4_Non2xxShowsError ==
    (ResultShown /\ lastSettled.status # 0
        /\ lastSettled.status \notin 200..299) => output = ERROR_TEXT

(* C5: a rejected fetch or an unparseable body leaves the one fixed error  *)
(* message, never the template.                                            *)
C5_FailureShowsFixedError ==
    (ResultShown /\ (lastSettled.status = 0
                        \/ lastSettled.body = "<html>Bad Gateway</html>"))
        => output = ERROR_TEXT

\* a 200 response with an unparseable body has been rendered
C5_Witness ==
    /\ ResultShown
    /\ lastSettled.status = 200
    /\ lastSettled.body = "<html>Bad Gateway</html>"
    /\ output = ERROR_TEXT

(* C6: a body that parses as a JSON object leaves the template with        *)
(* agent_name and response inserted verbatim, "undefined" standing for     *)
(* each absent field, and not the error message.                           *)
C6_ObjectRendersTemplate ==
    (ResultShown /\ lastSettled.status # 0) =>
        /\ lastSettled.body = "{\"agent_name\":\"Bot\",\"response\":\"Hello\"}"
              => output = Markup("Bot", "Hello")
        /\ lastSettled.body = "{\"agent_name\":\"Bot\"}"
              => output = Markup("Bot", "undefined")
        /\ lastSettled.body = "{\"response\":\"<b>Hi</b>\"}"
              => output = Markup("undefined", "<b>Hi</b>")
        /\ lastSettled.body = "{\"detail\":\"Not Found\"}"
              => output = Markup("undefined", "undefined")

\* an object without response has been rendered
C6_Witness ==
    /\ ResultShown
    /\ lastSettled.body = "{\"agent_name\":\"Bot\"}"
    /\ output =
        "\n            <h3>Agent: Bot</h3>\n            <p>undefined</p>\n        "

(* C7: when no call is in flight the output area shows the result of the   *)
(* call that settled last, whatever the order of invocation.               *)
C7_LastSettlementWins ==
    (InFlight = {} /\ lastSettled.id # 0) =>
        output = ExpectedOutput(lastSettled)

\* the first call settled after the second and its result is shown
C7_Witness ==
    /\ Len(calls) >= 2
    /\ calls[1].pc = "done"
    /\ calls[2].pc = "done"
    /\ lastSettled.id = 1
    /\ lastSettled.body = "{\"agent_name\":\"Bot\",\"response\":\"Hello\"}"
    /\ output = Markup("Bot", "Hello")

(* C9: what a call writes when it settles is determined by its own outcome *)
(* alone, whatever the output area held and whatever earlier invocations   *)
(* did.                                                                    *)
C9_OutputFromOwnOutcomeOnly ==
    [][ \A i \in DOMAIN calls : Settles(i) =>
            /\ lastSettled'.id = i
            /\ lastSettled'.status = calls[i].status
            /\ output' = ExpectedOutput(lastSettled')
      ]_vars

\* after an invocation that failed validation, a later invocation has
\* rendered the template
C9_Witness ==
    /\ \E i \in DOMAIN calls : calls[i].pc = "returned" /\ i < lastSettled.id
    /\ lastSettled.status = 200
    /\ lastSettled.body = "{\"agent_name\":\"Bot\",\"response\":\"Hello\"}"
    /\ InFlight = {}
    /\ output = Markup("Bot", "Hello")

====
